---- MODULE Spec2Model ----
(***************************************************************************)
(* State-machine model of src/final.js (p5.js sketch "Quantum              *)
(* Wave-Particle").                                                        *)
(*                                                                         *)
(* Numbers.  Lengths (positions, velocities) are fixed-point integers with *)
(* SCALE units per pixel; divisions truncate toward zero.  Preset fields   *)
(* keep the source's digits as integers: speed and particleSize in tenths, *)
(* noiseScale in 1/10000.  t is counted in 1/10000.                        *)
(*                                                                         *)
(* Library values the sketch cannot predict are inputs of the actions:     *)
(* noise(), random2D() and fromAngle(phase + t*2) yield unit vectors (Left *)
(* and Down here), random(a,b) a value drawn from a small set inside       *)
(* [a,b).  A particle's life (random(100,10000) minus 0.01 per frame) is   *)
(* kept by its sign only.  prev, phase and seed are read by display() and  *)
(* by the library inputs above only and are not kept.                      *)
(*                                                                         *)
(* Four specifications share the handlers and differ in the events and     *)
(* inputs they explore: Spec (keys, audio, frames), KeySpec (keys with     *)
(* varying size draws), MotionSpec (pointer, window, motion) and LifeSpec  *)
(* (expiring particles).                                                   *)
(***************************************************************************)
EXTENDS Integers, Sequences, FiniteSets, TLC

VARIABLES
    width, height,          \* p5 canvas size, pixels
    particles,              \* sequence of [pos, vel, size, life]
    mode, shapeIndex, t,
    presets, preset, curPreset,
    synth, audioEnabled,    \* synth: TRUE when the PolySynth has been assigned
    mouseX, mouseY, mouseIsPressed, frameCount,   \* p5 globals
    tUsed,                  \* value of t read by update()/display() in the last frame
    clicks                  \* number of mousePressed() calls so far

vars == <<width, height, particles, mode, shapeIndex, t, presets, preset,
          curPreset, synth, audioEnabled, mouseX, mouseY, mouseIsPressed,
          frameCount, tUsed, clicks>>

-----------------------------------------------------------------------------
(* Bounds of the model *)

N == 2              \* particles in the model (the sketch has 900)
MaxFrames == 2      \* draw() calls explored
MaxClicks == 1      \* mousePressed() calls explored
SCALE == 10         \* fixed-point units per pixel

(* Program constants *)

MarginPx == 50
ClickRadiusPx == 140

shapes == <<"circle", "square", "triangle", "star">>

Fields == {"hue", "sat", "bright", "speed", "noiseScale", "particleSize"}

PresetTemplates ==
    << [hue |-> 42,  sat |-> 85, bright |-> 70, speed |-> 8,  noiseScale |-> 14, particleSize |-> 30],
       [hue |-> 200, sat |-> 70, bright |-> 85, speed |-> 12, noiseScale |-> 20, particleSize |-> 22],
       [hue |-> 280, sat |-> 65, bright |-> 90, speed |-> 6,  noiseScale |-> 10, particleSize |-> 38],
       [hue |-> 30,  sat |-> 90, bright |-> 95, speed |-> 15, noiseScale |-> 26, particleSize |-> 18] >>

(* JavaScript's undefined, and the object Object.assign({}, undefined) yields *)
Undefined == [x \in {} |-> 0]

(* stands for JavaScript NaN; no number the model computes reaches it *)
NaN == 0 - 2^30

-----------------------------------------------------------------------------
(* Vector arithmetic of p5.Vector in fixed point *)

Div(a, b) == IF a >= 0 THEN a \div b ELSE 0 - ((0 - a) \div b)

RECURSIVE SqrtIter(_, _)
SqrtIter(n, x) ==
    LET y == (x + n \div x) \div 2
    IN  IF y >= x THEN x ELSE SqrtIter(n, y)

ISqrt(n) == IF n = 0 THEN 0 ELSE SqrtIter(n, n)

VAdd(a, b) == <<a[1] + b[1], a[2] + b[2]>>
VSub(a, b) == <<a[1] - b[1], a[2] - b[2]>>
Dot(a, b) == a[1] * b[1] + a[2] * b[2]
Mag(v) == ISqrt(Dot(v, v))

(* mult by k/den *)
VMult(v, k, den) == <<Div(v[1] * k, den), Div(v[2] * k, den)>>

(* 16 |v|, computed in sixteenths where the square leaves room for it *)
Mag16(v) ==
    IF Dot(v, v) < 2^22 THEN ISqrt(Dot(v, v) * 256) ELSE 16 * ISqrt(Dot(v, v))

(* setMag(n) = normalize().mult(n); normalize() leaves the zero vector alone *)
SetMag(v, n) ==
    LET len == Mag16(v)
    IN  IF len = 0 THEN v ELSE <<Div(v[1] * n * 16, len), Div(v[2] * n * 16, len)>>

(* v.lerp(target, pct/100) *)
Lerp(v, target, pct) == VAdd(v, VMult(VSub(target, v), pct, 100))

-----------------------------------------------------------------------------
(* Key values (KeyboardEvent.key) as sequences of UTF-16 code units *)

KeySpace == <<32>>
KeyLowerS == <<115>>
KeyUpperS == <<83>>
KeyLowerR == <<114>>
KeyUpperR == <<82>>
Key0 == <<48>>
Key1 == <<49>>
Key2 == <<50>>
Key3 == <<51>>
Key4 == <<52>>
Key5 == <<53>>
KeyLowerA == <<97>>
KeyEnter == <<69, 110, 116, 101, 114>>
KeyF1 == <<70, 49>>

Keys == { KeySpace, KeyLowerS, KeyUpperS, KeyLowerR, KeyUpperR, Key0, Key1,
          Key2, Key3, Key4, Key5, KeyLowerA, KeyEnter, KeyF1 }

(* JavaScript's a < b on strings: lexicographic on code units *)
RECURSIVE StrLess(_, _)
StrLess(a, b) ==
    IF b = <<>> THEN FALSE
    ELSE IF a = <<>> THEN TRUE
    ELSE IF a[1] < b[1] THEN TRUE
    ELSE IF a[1] > b[1] THEN FALSE
    ELSE StrLess(Tail(a), Tail(b))

IsDigit(c) == c >= 48 /\ c <= 57

(* int(key) = parseInt(key, 10): the leading decimal digits, NaN without any *)
RECURSIVE ParseDigits(_, _)
ParseDigits(s, acc) ==
    IF s = <<>> \/ ~IsDigit(s[1]) THEN acc
    ELSE ParseDigits(Tail(s), acc * 10 + (s[1] - 48))

ParseInt(s) == IF s = <<>> \/ ~IsDigit(s[1]) THEN NaN ELSE ParseDigits(s, 0)

(* variant: the range test widened to "0" .. "5" *)
IsPresetKeyLoose(k) == ~StrLess(k, Key0) /\ ~StrLess(Key5, k)

(* key >= "1" && key <= "4" *)
IsPresetKey(k) == ~StrLess(k, Key1) /\ ~StrLess(Key4, k)

(* int(key) - 1 *)
PresetIndexOf(k) == IF ParseInt(k) = NaN THEN NaN ELSE ParseInt(k) - 1

-----------------------------------------------------------------------------
(* Particle *)

Margin == MarginPx * SCALE

Mouse == <<mouseX * SCALE, mouseY * SCALE>>

(* a point of a w x h canvas, from the fractions (percent) random() drew *)
CanvasPoint(w, h, frac) == <<(w * SCALE * frac[1]) \div 100, (h * SCALE * frac[2]) \div 100>>

(* new Particle(): pos from map(gx + random(), 0, gridCols, 0, width) and its
   y twin, vel = random2D().mult(0.2), size = preset.particleSize *
   random(0.7, 1.6) with the factor in tenths, life = random(100, 10000) *)
NewParticle(w, h, pr, frac, dir, factor) ==
    [pos  |-> CanvasPoint(w, h, frac),
     vel  |-> VMult(dir, 2, 10),
     size |-> pr.particleSize * factor,
     life |-> "positive"]

(* map(d, 0, width * 0.7, 1.0, 0), times SCALE *)
Influence(d) == SCALE - Div(d * SCALE * 10, 7 * width * SCALE)

(* p5.Vector.sub(m, this.pos).setMag(influence * 0.8) *)
DragIncrement(p) ==
    LET d == Mag(VSub(p.pos, Mouse))
    IN  SetMag(VSub(Mouse, p.pos), Div(Influence(d) * 8, 10))

(* variant: only the lower edge wraps *)
WrapAxisLowerOnly(x, size) == IF x < 0 - Margin THEN size + Margin ELSE x

(* the boundary wrap of update(), one axis: the two ifs in source order *)
WrapAxis(x, size) ==
    LET x1 == IF x < 0 - Margin THEN size + Margin ELSE x
    IN  IF x1 > size + Margin THEN 0 - Margin ELSE x1

Wrap(pos) == <<WrapAxis(pos[1], width * SCALE), WrapAxis(pos[2], height * SCALE)>>

(* update(): nvec is the noise flow vector, aux the oscillation or jitter
   direction, expires whether this frame's decrement takes life to zero *)
Update(p, nvec, aux, expires) ==
    LET vel1 ==
            IF mouseIsPressed
            THEN VAdd(p.vel, DragIncrement(p))
            ELSE IF mode = "wave"
                 THEN Lerp(p.vel, VAdd(VMult(nvec, preset.speed * 6, 100), VMult(aux, 4, 10)), 5)
                 ELSE Lerp(p.vel, VAdd(VMult(nvec, preset.speed * 14, 100), VMult(aux, 5, 10)), 6)
    IN  [pos  |-> Wrap(VAdd(p.pos, vel1)),
         vel  |-> vel1,
         size |-> p.size,
         life |-> IF p.life = "positive" /\ ~expires THEN "positive" ELSE "expired"]

-----------------------------------------------------------------------------
(* Handlers.  Each takes the values the library draws for it as parameters;
   per-particle draws are functions on 1..N. *)

PresetAt(i) == IF i \in 0..(Len(presets) - 1) THEN presets[i + 1] ELSE Undefined

(* Object.assign({}, src) *)
ObjectAssign(src) == [f \in DOMAIN src |-> src[f]]

(* variant: the size draw is stored through the template, not a copy *)
ApplyPresetShared(i, factor) ==
    /\ curPreset' = i
    /\ presets' = [presets EXCEPT ![i + 1].particleSize = @ * factor[1]]
    /\ preset' = presets'[i + 1]
    /\ particles' = [j \in DOMAIN particles |->
            [particles[j] EXCEPT !.size = preset'.particleSize]]

(* applyPreset(i); factor[j] is particle j's random(0.7, 1.5), in tenths *)
ApplyPreset(i, factor) ==
    /\ curPreset' = i
    /\ preset' = ObjectAssign(PresetAt(i))
    /\ particles' = [j \in DOMAIN particles |->
            [particles[j] EXCEPT !.size =
                IF "particleSize" \in DOMAIN PresetAt(i)
                THEN PresetAt(i).particleSize * factor[j] ELSE NaN]]
    /\ UNCHANGED presets

(* the state setup() leaves: the canvas is sz, applyPreset(0) has run on the
   empty particle list, then N particles are pushed; frac, dir and factor are
   the constructors' draws *)
Setup(sz, frac, dir, factor) ==
    /\ width = sz[1]
    /\ height = sz[2]
    /\ presets = PresetTemplates
    /\ curPreset = 0
    /\ preset = ObjectAssign(PresetTemplates[1])
    /\ particles = [i \in 1..N |->
            NewParticle(sz[1], sz[2], PresetTemplates[1], frac[i], dir[i], factor[i])]
    /\ mode = "wave"
    /\ shapeIndex = 0
    /\ t = 0
    /\ synth = FALSE
    /\ audioEnabled = FALSE
    /\ mouseX = 0
    /\ mouseY = 0
    /\ mouseIsPressed = FALSE
    /\ frameCount = 0
    /\ tUsed = 0
    /\ clicks = 0

(* variant: t advances before the particle loop *)
DrawTimeFirst(flow, e) ==
    /\ frameCount < MaxFrames
    /\ particles' = [i \in DOMAIN particles |->
            Update(particles[i], flow[i][1], flow[i][2], e = i)]
    /\ t' = t + 5 * preset.speed
    /\ tUsed' = t'
    /\ frameCount' = frameCount + 1
    /\ UNCHANGED <<width, height, mode, shapeIndex, presets, preset, curPreset,
                   synth, audioEnabled, mouseX, mouseY, mouseIsPressed, clicks>>

(* variant: a particle whose life has run out is spliced out *)
DrawDespawn(flow, e) ==
    /\ frameCount < MaxFrames
    /\ particles' = SelectSeq([i \in DOMAIN particles |->
            Update(particles[i], flow[i][1], flow[i][2], e = i)],
            LAMBDA p : p.life = "positive")
    /\ tUsed' = t
    /\ t' = t + 5 * preset.speed
    /\ frameCount' = frameCount + 1
    /\ UNCHANGED <<width, height, mode, shapeIndex, presets, preset, curPreset,
                   synth, audioEnabled, mouseX, mouseY, mouseIsPressed, clicks>>

(* draw(): the particle loop runs first and reads t, then t advances.
   flow[i] is particle i's (nvec, osc or jitter direction); particle e's life
   reaches zero in this frame (none for e = 0) *)
Draw(flow, e) ==
    /\ frameCount < MaxFrames
    /\ particles' = [i \in DOMAIN particles |->
            Update(particles[i], flow[i][1], flow[i][2], e = i)]
    /\ tUsed' = t
    /\ t' = t + 5 * preset.speed
    /\ frameCount' = frameCount + 1
    /\ UNCHANGED <<width, height, mode, shapeIndex, presets, preset, curPreset,
                   synth, audioEnabled, mouseX, mouseY, mouseIsPressed, clicks>>

(* the impulse of mousePressed() on particle p; mag is its random(0.6, 2.2) *)
Impulse(p, mag) == SetMag(VSub(p.pos, Mouse), mag)

(* the impulse loop of mousePressed() *)
Burst(mag) ==
    [i \in DOMAIN particles |->
        IF Mag(VSub(Mouse, particles[i].pos)) < ClickRadiusPx * SCALE
        THEN [particles[i] EXCEPT !.vel = VAdd(@, Impulse(particles[i], mag[i]))]
        ELSE particles[i]]

(* variant: a click toggles the mode as well *)
MousePressedToggles(soundOk, mag) ==
    /\ clicks < MaxClicks
    /\ mouseIsPressed' = TRUE
    /\ clicks' = clicks + 1
    /\ mode' = IF mode = "wave" THEN "particle" ELSE "wave"
    /\ IF ~audioEnabled /\ ~soundOk
       THEN UNCHANGED <<synth, audioEnabled, shapeIndex, particles>>
       ELSE /\ synth' = TRUE
            /\ audioEnabled' = TRUE
            /\ shapeIndex' = (shapeIndex + 1) % Len(shapes)
            /\ particles' = Burst(mag)
    /\ UNCHANGED <<width, height, t, presets, preset, curPreset, mouseX,
                   mouseY, frameCount, tUsed>>

(* mousePressed(), after p5 has set mouseIsPressed; soundOk: setupSound()
   returns rather than throws.  A throw leaves the handler at once. *)
MousePressed(soundOk, mag) ==
    /\ clicks < MaxClicks
    /\ mouseIsPressed' = TRUE
    /\ clicks' = clicks + 1
    /\ IF ~audioEnabled /\ ~soundOk
       THEN UNCHANGED <<synth, audioEnabled, shapeIndex, particles>>
       ELSE /\ synth' = TRUE
            /\ audioEnabled' = TRUE
            /\ shapeIndex' = (shapeIndex + 1) % Len(shapes)
            /\ particles' = Burst(mag)
    /\ UNCHANGED <<width, height, mode, t, presets, preset, curPreset, mouseX,
                   mouseY, frameCount, tUsed>>

(* p5 clears mouseIsPressed on mouseup; the sketch has no handler *)
MouseReleased ==
    /\ mouseIsPressed
    /\ mouseIsPressed' = FALSE
    /\ UNCHANGED <<width, height, particles, mode, shapeIndex, t, presets, preset,
                   curPreset, synth, audioEnabled, mouseX, mouseY,
                   frameCount, tUsed, clicks>>

(* p5 tracks the pointer in mouseX, mouseY *)
MouseMoved(pt) ==
    /\ mouseX' = pt[1]
    /\ mouseY' = pt[2]
    /\ UNCHANGED <<width, height, particles, mode, shapeIndex, t, presets, preset,
                   curPreset, synth, audioEnabled, mouseIsPressed,
                   frameCount, tUsed, clicks>>

(* the reseed branch of keyPressed(): pos = (random(width), random(height)),
   vel = random2D().mult(0.2) *)
Reseed(frac, dir) ==
    [i \in DOMAIN particles |->
        [particles[i] EXCEPT !.pos = CanvasPoint(width, height, frac[i]),
                             !.vel = VMult(dir[i], 2, 10)]]

(* keyPressed(); factor, frac and dir are the draws of the preset and reseed
   branches *)
KeyPressed(k, factor, frac, dir) ==
    /\ IF k = KeySpace
       THEN /\ mode' = IF mode = "wave" THEN "particle" ELSE "wave"
            /\ UNCHANGED <<particles, presets, preset, curPreset>>
       ELSE IF k = KeyLowerS \/ k = KeyUpperS
       THEN UNCHANGED <<mode, particles, presets, preset, curPreset>>
       ELSE IF IsPresetKey(k)
       THEN /\ ApplyPreset(PresetIndexOf(k), factor)
            /\ UNCHANGED mode
       ELSE IF k = KeyLowerR \/ k = KeyUpperR
       THEN /\ particles' = Reseed(frac, dir)
            /\ UNCHANGED <<mode, presets, preset, curPreset>>
       ELSE UNCHANGED <<mode, particles, presets, preset, curPreset>>
    /\ UNCHANGED <<width, height, shapeIndex, t, synth, audioEnabled, mouseX,
                   mouseY, mouseIsPressed, frameCount, tUsed, clicks>>

(* windowResized(): resizeCanvas(windowWidth, windowHeight) *)
WindowResized(sz) ==
    /\ width' = sz[1]
    /\ height' = sz[2]
    /\ UNCHANGED <<particles, mode, shapeIndex, t, presets, preset, curPreset,
                   synth, audioEnabled, mouseX, mouseY, mouseIsPressed,
                   frameCount, tUsed, clicks>>

-----------------------------------------------------------------------------
(* Inputs explored.  A draw made once per particle is explored with all
   particles drawing the same value (Same), or with the values laid out by
   parity of the index (Alternate). *)

(* unit vectors, as random2D() and fromAngle() yield *)
Left == <<0 - SCALE, 0>>
Down == <<0, SCALE>>

(* windowWidth x windowHeight, pixels *)
Portrait == <<60, 240>>
Landscape == <<400, 60>>
CanvasSizes == { Portrait, Landscape }

(* pointer positions, pixels; p5 starts with the pointer at (0, 0) *)
MousePts == { <<0, 0>>, <<30, 100>> }

(* canvas fractions, percent of (width, height) *)
Corner == <<0, 0>>
Centre == <<50, 50>>

Same(x) == [i \in 1..N |-> x]

(* random(0.6, 2.2): its least value, rounded up to a unit *)
LowMag == (6 * SCALE + 9) \div 10

(* canvas fractions by parity of the particle's index *)
Alternate == [i \in 1..N |-> IF i % 2 = 0 THEN Corner ELSE Centre]

(* random(0.7, 1.5), tenths *)
SizeFactors == { 7, 14 }

MotionKeys == { KeySpace, KeyLowerR, Key4 }

LifeKeys == { KeyLowerR, Key2 }

-----------------------------------------------------------------------------
(* Spec: keyboard, audio and frames.  The window keeps its size and the
   pointer rests at (0, 0); every key of Keys is pressed, setupSound() may
   throw. *)

Init == Setup(Portrait, Alternate, Same(Left), Same(7))

Next ==
    \/ Draw(Same(<<Left, Down>>), 0)
    \/ \E soundOk \in BOOLEAN : MousePressed(soundOk, Same(LowMag))
    \/ MouseReleased
    \/ \E k \in Keys : KeyPressed(k, Same(7), Same(Centre), Same(Left))

Spec == Init /\ [][Next]_vars

(* KeySpec: every key among frames, the preset branch drawing either size
   factor. *)

KeyNext ==
    \/ Draw(Same(<<Left, Down>>), 0)
    \/ \E k \in Keys, fac \in SizeFactors :
            KeyPressed(k, Same(fac), Same(Centre), Same(Left))

KeySpec == Init /\ [][KeyNext]_vars

(* MotionSpec: pointer, window and particle motion.  Audio starts; the keys
   are space, r and 4. *)

MotionInit == \E sz \in CanvasSizes : Setup(sz, Alternate, Same(Left), Same(7))

MotionNext ==
    \/ Draw(Same(<<Left, Down>>), 0)
    \/ MousePressed(TRUE, Same(LowMag))
    \/ MouseReleased
    \/ \E pt \in MousePts : MouseMoved(pt)
    \/ \E k \in MotionKeys : KeyPressed(k, Same(7), Alternate, Same(Left))
    \/ \E sz \in CanvasSizes : WindowResized(sz)

MotionSpec == MotionInit /\ [][MotionNext]_vars

(* LifeSpec: frames in which a particle's life runs out, among clicks,
   reseeds, preset changes and resizes. *)

LifeNext ==
    \/ \E e \in 0..N : Draw(Same(<<Left, Down>>), e)
    \/ MousePressed(TRUE, Same(LowMag))
    \/ MouseReleased
    \/ \E k \in LifeKeys : KeyPressed(k, Same(7), Same(Centre), Same(Left))
    \/ \E sz \in CanvasSizes : WindowResized(sz)

LifeSpec == MotionInit /\ [][LifeNext]_vars

-----------------------------------------------------------------------------
(* Properties *)

(* C1: at the end of every update(), that is for every particle after every
   frame, -50 <= pos.x <= width + 50 and -50 <= pos.y <= height + 50 for the
   canvas of that frame, whatever clicks, drags, reseeds, preset changes,
   mode toggles and resizes came before *)
C1_WrapBounds ==
    [][frameCount' # frameCount =>
        \A i \in DOMAIN particles' :
            /\ particles'[i].pos[1] >= 0 - Margin
            /\ particles'[i].pos[1] <= width' * SCALE + Margin
            /\ particles'[i].pos[2] >= 0 - Margin
            /\ particles'[i].pos[2] <= height' * SCALE + Margin]_vars

(* a frame has left a particle on the right edge, where only the wrap from
   beyond the left edge puts it *)
C1_Wrapped ==
    /\ frameCount = MaxFrames
    /\ \E i \in DOMAIN particles : particles[i].pos[1] = width * SCALE + Margin

(* C2: a click on which setupSound() fails (audio stays off) still cycles the
   shape index and applies the impulse loop *)
C2_FailedAudioClickStillActs ==
    [][(clicks' # clicks /\ ~audioEnabled') =>
        /\ shapeIndex' = (shapeIndex + 1) % Len(shapes)
        /\ particles' = Burst(Same(LowMag))]_vars

(* a click has been handled and audio is still off *)
C2_FailedClick == clicks > 0 /\ ~audioEnabled /\ ~synth

(* C3: after setup and any key presses, curPreset is in 0..3 and the active
   preset has all six fields, equal to those of presets[curPreset] *)
C3_PresetInRange ==
    /\ curPreset \in 0..3
    /\ DOMAIN preset = Fields
    /\ \A f \in Fields : preset[f] = presets[curPreset + 1][f]

(* key "4" has selected the last preset *)
C3_LastPreset == curPreset = 3 /\ preset.hue = 30 /\ particles[1].size = 18 * 14

(* C4: in a frame with the pointer pressed, each particle's velocity
   increment is not directed away from the pointer and its magnitude is at
   most 0.8; the limit is taken one unit of 1/SCALE high to allow for the
   fixed-point rounding *)
C4_DragTowardPointer ==
    [][(frameCount' # frameCount /\ mouseIsPressed) =>
        \A i \in DOMAIN particles :
            LET inc == VSub(particles'[i].vel, particles[i].vel)
            IN  /\ Dot(inc, VSub(Mouse, particles[i].pos)) >= 0
                /\ Dot(inc, inc) <= ((8 * SCALE) \div 10 + 1) * ((8 * SCALE) \div 10 + 1)]_vars

(* a drag frame has pushed a particle farther than 0.7 * width from the
   pointer away from it *)
C4_Repelled ==
    /\ frameCount > 0
    /\ mouseIsPressed
    /\ \E i \in DOMAIN particles :
        /\ Mag(VSub(Mouse, particles[i].pos)) * 10 > 7 * width * SCALE
        /\ Dot(particles[i].vel, VSub(Mouse, particles[i].pos)) < 0

(* C5: on a click every particle nearer than 140 to the pointer, distance 0
   included, gets an impulse of magnitude in [0.6, 2.2]; the limits are
   taken two units of 1/SCALE low and one high to allow for the fixed-point
   rounding *)
C5_ImpulseMagnitude ==
    [][clicks' # clicks =>
        \A i \in DOMAIN particles :
            Mag(VSub(Mouse, particles[i].pos)) < ClickRadiusPx * SCALE =>
                LET inc == VSub(particles'[i].vel, particles[i].vel)
                IN  /\ Dot(inc, inc) >= ((6 * SCALE) \div 10 - 2) * ((6 * SCALE) \div 10 - 2)
                    /\ Dot(inc, inc) <= ((22 * SCALE) \div 10 + 1) * ((22 * SCALE) \div 10 + 1)]_vars

(* a click has landed exactly on a particle *)
C5_ClickOnParticle ==
    /\ clicks > 0
    /\ frameCount = 0
    /\ \E i \in DOMAIN particles : particles[i].pos = Mouse

(* C6 as stated: t advances once per frame by 0.005 * speed and the
   particles of that frame read the advanced value *)
C6_TimeBeforeParticles ==
    [][frameCount' # frameCount =>
        /\ t' = t + 5 * preset.speed
        /\ tUsed' = t']_vars

(* C6 as the code has it: t advances once per frame by 0.005 * speed, after
   the particle loop, so the particles of a frame read the value t had when
   the frame began *)
C6_TimeAfterParticles ==
    [][frameCount' # frameCount =>
        /\ t' = t + 5 * preset.speed
        /\ tUsed' = t]_vars

(* two frames have run; the second read the t the first left *)
C6_TwoFrames == frameCount = 2 /\ tUsed > 0 /\ t > tUsed

(* C7: applyPreset never changes the templates, and applying the preset
   that is already current leaves the active preset's six fields as they
   were *)
C7_TemplatesKept ==
    /\ [](presets = PresetTemplates)
    /\ [][curPreset' = curPreset => preset' = preset]_vars

(* preset 2 is current and the sizes carry its larger draw *)
C7_Reapplied ==
    /\ curPreset = 1
    /\ preset = PresetTemplates[2]
    /\ \A i \in DOMAIN particles : particles[i].size = 22 * 14

(* C8: the number of particles is N in every state after setup *)
C8_CountFixed == DOMAIN particles = 1..N

(* a particle's life has run out, and a later frame has run *)
C8_Expired ==
    /\ frameCount = MaxFrames
    /\ \E i \in DOMAIN particles : particles[i].life = "expired"

(* C9: shapeIndex is a valid index and advances by one, circularly, with
   every click: after k clicks it is k mod 4, so 4 clicks return it and
   fewer do not *)
C9_ShapeCycle ==
    /\ shapeIndex \in 0..(Len(shapes) - 1)
    /\ shapeIndex = clicks % Len(shapes)

(* a click has left shapeIndex where it was *)
C9_ClickWithoutCycle == clicks = 1 /\ shapeIndex = 0

(* C10: mode is wave or particle; a space key press swaps it (so two return
   it) and no other step changes it *)
C10_ModeToggle ==
    /\ [](mode \in {"wave", "particle"})
    /\ [][IF KeyPressed(KeySpace, Same(7), Same(Centre), Same(Left))
          THEN mode' # mode
          ELSE mode' = mode]_vars

(* mode has been toggled among frames and clicks *)
C10_Toggled == mode = "particle" /\ frameCount = MaxFrames /\ clicks = MaxClicks

====
